---- MODULE Spec2Model ----
(***************************************************************************)
(* Model of src/main.js: the HEIC -> JPEG converter page.                  *)
(*                                                                         *)
(* The state is the page's state: the status line, the children of the     *)
(* #output element, the shared offscreen canvas, the objectUrls set, the   *)
(* browser's blob URL store, the pending setTimeout callbacks and, for     *)
(* every invocation of the async function processFiles, its position (the  *)
(* await it is suspended at) and its local variables.  What the page       *)
(* writes to the console and the drag-over class of the drop zone are      *)
(* never read back by the program and are left out.                        *)
(*                                                                         *)
(* One action is one run-to-completion segment of JavaScript: an event     *)
(* handler, or the continuation of an async function from the settlement   *)
(* of the promise it awaits to the next await (or to its return).          *)
(***************************************************************************)
EXTENDS Integers, Sequences, FiniteSets, TLC

\* ------------------------------------------------------------------ bounds

\* Number of invocations of processFiles (change / drop events) in a run.
MaxBatches == 2
\* Largest number of files one event hands to processFiles.
MaxFiles == 2
\* Largest number of supported files a run hands to processFiles, all its
\* events together.
MaxRunFiles == 3
\* Largest number of pending setTimeout callbacks.
MaxTimers == 1
\* Largest number of files in the event of the filter specification.
MaxFilterFiles == 2
\* Largest number of supported files in a run of the timer specification.
MaxTimerRunFiles == 2
\* Largest width, height and maxWidth of the thumbnail specification.
MaxDim == 6

\* createThumbnailDataUrl / createThumbnailFromBlob: maxWidth = 240
DefaultMaxWidth == 240

Batches == 1..MaxBatches

\* ----------------------------------------------------------------- strings
\* A JavaScript string is a sequence of characters; a character is a
\* one-letter TLA+ string.  "I^" stands for U+0130 (capital I with dot
\* above), whose lower case is the two characters "i" and U+0307 ("^").

LowerOf(c) ==
  CASE c = "A" -> <<"a">> [] c = "C" -> <<"c">> [] c = "E" -> <<"e">>
    [] c = "F" -> <<"f">> [] c = "H" -> <<"h">> [] c = "I" -> <<"i">>
    [] c = "I^" -> <<"i", "^">>
    [] OTHER -> <<c>>

RECURSIVE ToLowerCase(_)
ToLowerCase(s) ==
  IF s = <<>> THEN <<>> ELSE LowerOf(Head(s)) \o ToLowerCase(Tail(s))

EndsWith(s, suffix) ==
  /\ Len(suffix) <= Len(s)
  /\ SubSeq(s, Len(s) - Len(suffix) + 1, Len(s)) = suffix

StartsWith(s, prefix) ==
  /\ Len(prefix) <= Len(s)
  /\ SubSeq(s, 1, Len(prefix)) = prefix

\* originalName.replace(/\.[^.]+$/, ""): drop a last dot that is followed
\* by at least one character, with everything after it.
BaseName(name) ==
  LET dots == {k \in 1..Len(name) : name[k] = "."}
      last == IF dots = {} THEN 0
              ELSE CHOOSE k \in dots : \A j \in dots : j <= k
  IN IF last = 0 \/ last = Len(name) THEN name
     ELSE SubSeq(name, 1, last - 1)

\* `${baseName}.jpg`
JpgName(name) == BaseName(name) \o <<".", "j", "p", "g">>

\* ------------------------------------------------------------------- files
\* The File objects the user can select or drop: name, declared type and
\* the natural size of the picture in the file.

Catalog == <<
  [name |-> <<"p", ".", "H", "E", "I", "C">>, type |-> <<>>,
   w |-> 480, h |-> 360],
  [name |-> <<"l", ".", "p", "n", "g">>,
   type |-> <<"i", "m", "a", "g", "e", "/", "p", "n", "g">>,
   w |-> 100, h |-> 50],
  [name |-> <<"n", ".", "t", "x", "t">>,
   type |-> <<"t", "e", "x", "t", "/", "p", "l", "a", "i", "n">>,
   w |-> 0, h |-> 0],
  [name |-> <<"s", ".", "H", "e", "I", "f">>, type |-> <<>>,
   w |-> 241, h |-> 1],
  [name |-> <<"h", "e", "i", "c">>, type |-> <<>>,
   w |-> 0, h |-> 0],
  [name |-> <<"a", ".", "h", "e", "i", "c", ".", "t", "x", "t">>,
   type |-> <<"t", "e", "x", "t", "/", "p", "l", "a", "i", "n">>,
   w |-> 0, h |-> 0],
  [name |-> <<"i", "m", "a", "g", "e", ".", "p", "d", "f">>,
   type |-> <<"a", "p", "p", "/", "p", "d", "f">>,
   w |-> 0, h |-> 0],
  [name |-> <<"x", ".", "H", "E", "I^", "C">>, type |-> <<>>,
   w |-> 0, h |-> 0],
  [name |-> <<"v", ".", "s", "v", "g">>,
   type |-> <<"i", "m", "a", "g", "e", "/", "s", "v", "g">>,
   w |-> 0, h |-> 0]
>>

\* The files of the events of the main specification ...
MainFiles == {Catalog[1], Catalog[2], Catalog[3]}
\* ... and of the filter specification.
AllFiles == {Catalog[k] : k \in 1..Len(Catalog)}

SeqsUpTo(S, n) == UNION {[1..k -> S] : k \in 0..n}


\* -------------------------------------------------------------------- state

VARIABLES
  status,      \* statusEl.textContent
  output,      \* the children of #output, in document order
  canvas,      \* the shared offscreen canvas: its size and the picture on it
  objectUrls,  \* the Set objectUrls
  blobUrls,    \* every URL that URL.createObjectURL has returned
  revoked,     \* the URLs revokeObjectURL has been called on
  timers,      \* the pending setTimeout callbacks, in firing order
  proc         \* per invocation of processFiles: position and locals

vars == <<status, output, canvas, objectUrls, blobUrls, revoked, timers,
          proc>>

\* A File or Blob: the picture it holds (the File object it came from, by
\* the invocation and position that handled it), its format and its size.
NoImage == <<0, 0>>
NoBlob == [img |-> NoImage, fmt |-> "none", w |-> 0, h |-> 0]
FileBlob(b, i, file) ==
  [img |-> <<b, i>>, fmt |-> "file", w |-> file.w, h |-> file.h]
JpegBlob(img, w, h) == [img |-> img, fmt |-> "jpeg", w |-> w, h |-> h]

\* A thumbnail data URL: the size and the picture it encodes; null is <<>>.
Null == <<>>

\* URL.createObjectURL(blob) returns a URL that no other call returns.  The
\* model names the URL by the blob it refers to and by the call that made
\* it: "source" (convertImageFileToJpeg), "thumbnail"
\* (createThumbnailFromBlob) or "download" (addDownloadLink).
NewUrl(blob, site) == [blob |-> blob, site |-> site]
NoUrl == NewUrl(NoBlob, "none")

\* The locals of an invocation that is not inside a conversion.
NoLocals == [url |-> NoUrl, blob |-> NoBlob, thumb |-> Null]
IdleProc == [pc |-> "idle", files |-> <<>>, i |-> 0] @@ NoLocals

\* The page state the helper functions of main.js read and write.
World ==
  [status |-> status, output |-> output, canvas |-> canvas,
   objectUrls |-> objectUrls, blobUrls |-> blobUrls, revoked |-> revoked]

SetWorld(w) ==
  /\ status' = w.status
  /\ output' = w.output
  /\ canvas' = w.canvas
  /\ objectUrls' = w.objectUrls
  /\ blobUrls' = w.blobUrls
  /\ revoked' = w.revoked

Init ==
  /\ status = <<"">>
  /\ output = <<>>
  /\ canvas = [width |-> 300, height |-> 150, img |-> NoImage]
  /\ objectUrls = {}
  /\ blobUrls = {}
  /\ revoked = {}
  /\ timers = <<>>
  /\ proc = [b \in Batches |-> IdleProc]

\* ----------------------------------------------------------------- helpers

\* setStatus(msg)
SetStatus(w, msg) == [w EXCEPT !.status = msg]

\* The texts the page writes.
NoFilesMsg == <<"No files selected.">>
NoSupportedMsg == <<"No supported image files found.">>
ProcessingMsg(n) == <<"Processing ", n, " file(s)...">>
DoneMsg == <<"Done.">>
HeicLine(name) == <<"(HEIC) Converting ", name, "...">>
StdLine(name) == <<"(Standard image) Reading ", name, "...">>
ErrorLine(name, reason) == <<"Error converting ", name, ": ", reason>>

\* appendMessage(text)
AppendMessage(w, text) ==
  [w EXCEPT !.output = Append(@, [kind |-> "log", text |-> text])]

\* URL.createObjectURL(blob)
CreateObjectURL(w, blob, site) ==
  [w EXCEPT !.blobUrls = @ \cup {NewUrl(blob, site)}]

\* URL.revokeObjectURL(url)
RevokeObjectURL(w, url) == [w EXCEPT !.revoked = @ \cup {url}]

\* Mutants of RevokeAll: the set is not cleared; the URLs are not revoked.
RevokeAllKeepsSet(w) == [w EXCEPT !.revoked = @ \cup w.objectUrls]
RevokeAllClearsOnly(w) == [w EXCEPT !.objectUrls = {}]

\* objectUrls.forEach(url => URL.revokeObjectURL(url)); objectUrls.clear();
RevokeAll(w) ==
  [w EXCEPT !.revoked = @ \cup w.objectUrls, !.objectUrls = {}]

\* output.innerHTML = ""
ClearOutput(w) == [w EXCEPT !.output = <<>>]

\* Mutant of Supported: the name is compared without toLowerCase().
SupportedCaseSensitive(file) ==
  \/ StartsWith(file.type, <<"i", "m", "a", "g", "e", "/">>)
  \/ EndsWith(file.name, <<".", "h", "e", "i", "c">>)
  \/ EndsWith(file.name, <<".", "h", "e", "i", "f">>)

\* The filter of processFiles.
Supported(file) ==
  \/ StartsWith(file.type, <<"i", "m", "a", "g", "e", "/">>)
  \/ EndsWith(ToLowerCase(file.name), <<".", "h", "e", "i", "c">>)
  \/ EndsWith(ToLowerCase(file.name), <<".", "h", "e", "i", "f">>)

FilterFiles(files) == SelectSeq(files, Supported)

\* Mutant of Scale: the scale is not capped at 1.
ScaleUncapped(maxWidth, width) == <<maxWidth, width>>

\* Math.min(maxWidth / width, 1) as a fraction <<num, den>>; a width of 0
\* gives Infinity, and the minimum is 1.
Scale(maxWidth, width) ==
  IF width = 0 \/ maxWidth >= width THEN <<1, 1>> ELSE <<maxWidth, width>>

\* Math.round(x * scale): the nearest integer, halves upwards.
RoundScaled(x, scale) == (2 * x * scale[1] + scale[2]) \div (2 * scale[2])

\* createThumbnailDataUrl(sourceCanvas, maxWidth)
CreateThumbnailDataUrl(c, maxWidth) ==
  IF c.width = 0 \/ c.height = 0 THEN Null
  ELSE LET scale == Scale(maxWidth, c.width)
       IN <<RoundScaled(c.width, scale), RoundScaled(c.height, scale), c.img>>

\* The drawing half of createThumbnailFromBlob, once the image has loaded.
ThumbnailOfImage(blob, maxWidth) ==
  LET scale == Scale(maxWidth, blob.w)
  IN <<RoundScaled(blob.w, scale), RoundScaled(blob.h, scale), blob.img>>

\* Mutant of AddDownloadLink: the URL is not added to objectUrls.
AddDownloadLinkUntracked(w, originalName, blob, thumbDataUrl) ==
  LET url == NewUrl(blob, "download")
      w1 == CreateObjectURL(w, blob, "download")
  IN [w1 EXCEPT
        !.output = Append(@, [kind |-> "row", label |-> JpgName(originalName),
                              href |-> url, thumb |-> thumbDataUrl])]

\* Mutant of AddDownloadLink: the row is put before the other children.
AddDownloadLinkPrepends(w, originalName, blob, thumbDataUrl) ==
  LET url == NewUrl(blob, "download")
      w1 == CreateObjectURL(w, blob, "download")
  IN [w1 EXCEPT
        !.objectUrls = @ \cup {url},
        !.output = <<[kind |-> "row", label |-> JpgName(originalName),
                      href |-> url, thumb |-> thumbDataUrl]>> \o @]

\* addDownloadLink(originalName, blob, thumbDataUrl)
AddDownloadLink(w, originalName, blob, thumbDataUrl) ==
  LET url == NewUrl(blob, "download")
      w1 == CreateObjectURL(w, blob, "download")
  IN [w1 EXCEPT
        !.objectUrls = @ \cup {url},
        !.output = Append(@, [kind |-> "row", label |-> JpgName(originalName),
                              href |-> url, thumb |-> thumbDataUrl])]

\* safeIsHeic(file): what it resolves with, given how isHeic(file) settled.
IsHeicOutcomes == {"true", "false", "reject"}
\* Mutant of SafeIsHeic: the catch block returns true.
SafeIsHeicDefaultsTrue(outcome) == outcome # "false"
SafeIsHeic(outcome) == IF outcome = "reject" THEN FALSE ELSE outcome = "true"

\* The file an invocation is converting.
CurrentFile(p) == p.files[p.i]

\* The loop of processFiles after the body has finished for file i: the
\* next iteration calls safeIsHeic, and after the last file the status is
\* set and the function returns.  The result is <<world, invocation>>.
NextIteration(w, p) ==
  IF p.i < Len(p.files)
  THEN <<w, [pc |-> "isHeic", files |-> p.files, i |-> p.i + 1] @@ NoLocals>>
  ELSE <<SetStatus(w, DoneMsg),
         [pc |-> "returned", files |-> p.files, i |-> p.i] @@ NoLocals>>

\* Mutants of CatchError: the error is logged and thrown again, so that the
\* invocation ends; the status "Done." is set on the success path only.
CatchErrorRethrows(w, p, reason) ==
  <<AppendMessage(w, ErrorLine(CurrentFile(p).name, reason)),
    [pc |-> "returned", files |-> p.files, i |-> p.i] @@ NoLocals>>
CatchErrorSkipsDone(w, p, reason) ==
  LET next == NextIteration(
                AppendMessage(w, ErrorLine(CurrentFile(p).name, reason)), p)
  IN IF p.i < Len(p.files) THEN next
     ELSE <<[next[1] EXCEPT !.status = w.status], next[2]>>

\* Mutant of CatchError: a retry; the failed file is classified again.
CatchErrorRetries(w, p, reason) ==
  <<AppendMessage(w, ErrorLine(CurrentFile(p).name, reason)),
    [pc |-> "isHeic", files |-> p.files, i |-> p.i] @@ NoLocals>>

\* catch (err) { appendMessage(`Error converting ...`) }, then the loop.
CatchError(w, p, reason) ==
  NextIteration(AppendMessage(w, ErrorLine(CurrentFile(p).name, reason)), p)

\* A conversion that has called addDownloadLink returns to the loop.
Succeed(w, p, blob, thumb) ==
  NextIteration(AddDownloadLink(w, CurrentFile(p).name, blob, thumb), p)

Commit(b, wp) ==
  /\ SetWorld(wp[1])
  /\ proc' = [proc EXCEPT ![b] = wp[2]]

\* Mutant of EarlyReturn: the cleanup of the previous results runs before
\* the checks for an empty selection.
EarlyReturnAfterCleanup(w, msg) == ClearOutput(RevokeAll(SetStatus(w, msg)))

\* if (!files.length) { setStatus(...); return; }, before and after the
\* filter.
EarlyReturn(w, msg) == SetStatus(w, msg)

\* ----------------------------------------------------------------- actions

\* processFiles(files), up to its first await: the early returns, the
\* filter, the status, the cleanup of the previous results and the call of
\* safeIsHeic for the first file.  Invocation b is the next unused one.
ProcessFiles(b, input) ==
  /\ proc[b].pc = "idle"
  /\ \A c \in Batches : c < b => proc[c].pc # "idle"
  /\ UNCHANGED timers
  /\ IF Len(input) = 0
     THEN Commit(b, <<EarlyReturn(World, NoFilesMsg),
                      [IdleProc EXCEPT !.pc = "returned"]>>)
     ELSE LET files == FilterFiles(input)
          IN IF Len(files) = 0
             THEN Commit(b, <<EarlyReturn(World, NoSupportedMsg),
                              [IdleProc EXCEPT !.pc = "returned"]>>)
             ELSE Commit(b,
                    <<ClearOutput(RevokeAll(
                        SetStatus(World, ProcessingMsg(Len(files))))),
                      [IdleProc EXCEPT !.pc = "isHeic", !.files = files,
                                       !.i = 1]>>)

\* fileInput "change" listener
FileInputChange(input) == \E b \in Batches : ProcessFiles(b, input)

\* dropZone "drop" listener; without a dataTransfer it returns at once
\* and changes nothing.
Drop(input) == \E b \in Batches : ProcessFiles(b, input)

\* isHeic(file) settles: safeIsHeic resolves, and the loop body calls one of
\* the two conversions, which runs to its first await.
IsHeicSettles(b, outcome) ==
  LET p == proc[b]
      file == CurrentFile(p)
      heic == SafeIsHeic(outcome)
  IN /\ p.pc = "isHeic"
     /\ UNCHANGED timers
     /\ IF heic
        THEN \* convertHeicFileToJpeg: appendMessage, await heicTo(...)
             Commit(b, <<AppendMessage(World, HeicLine(file.name)),
                         [p EXCEPT !.pc = "heicTo"]>>)
        ELSE \* convertImageFileToJpeg: appendMessage, createObjectURL,
             \* await loadImage(url)
             LET w1 == AppendMessage(World, StdLine(file.name))
                 blob == FileBlob(b, p.i, file)
             IN Commit(b, <<CreateObjectURL(w1, blob, "source"),
                            [p EXCEPT !.pc = "loadImage",
                                      !.url = NewUrl(blob, "source")]>>)

\* heicTo(...) settles.  Resolved: createThumbnailFromBlob creates its URL
\* and awaits loadImage.  Rejected: the catch of processFiles.
HeicToSettles(b, ok) ==
  LET p == proc[b]
      file == CurrentFile(p)
      jpeg == JpegBlob(<<b, p.i>>, file.w, file.h)
  IN /\ p.pc = "heicTo"
     /\ UNCHANGED timers
     /\ IF ok
        THEN Commit(b, <<CreateObjectURL(World, jpeg, "thumbnail"),
                         [p EXCEPT !.pc = "thumbLoad", !.blob = jpeg,
                                   !.url = NewUrl(jpeg, "thumbnail")]>>)
        ELSE Commit(b, CatchError(World, p, "heicTo rejected"))

\* Mutant of ThumbLoadSettles: the URL is revoked after the encoding, not
\* in a finally block.
ThumbLoadSettlesNoFinally(b, outcome) ==
  LET p == proc[b]
  IN /\ p.pc = "thumbLoad"
     /\ UNCHANGED timers
     /\ CASE outcome = "ok" ->
               Commit(b, Succeed(RevokeObjectURL(World, p.url), p, p.blob,
                                 ThumbnailOfImage(p.blob, DefaultMaxWidth)))
          [] outcome = "error" ->
               Commit(b, CatchError(World, p, "Failed to load image"))
          [] outcome = "throw" ->
               Commit(b, CatchError(World, p, "thumbnail failed"))

\* createThumbnailFromBlob after its loadImage settles: "ok" (the image
\* loads and is drawn and encoded), "error" (img.onerror) or "throw" (the
\* image loads and drawing or encoding throws).  The finally block revokes
\* the URL on each of the three ways out.
ThumbOutcomes == {"ok", "error", "throw"}
ThumbLoadSettles(b, outcome) ==
  LET p == proc[b]
      w1 == RevokeObjectURL(World, p.url)
  IN /\ p.pc = "thumbLoad"
     /\ UNCHANGED timers
     /\ CASE outcome = "ok" ->
               Commit(b, Succeed(w1, p, p.blob,
                                 ThumbnailOfImage(p.blob, DefaultMaxWidth)))
          [] outcome = "error" ->
               Commit(b, CatchError(w1, p, "Failed to load image"))
          [] outcome = "throw" ->
               Commit(b, CatchError(w1, p, "thumbnail failed"))

\* convertImageFileToJpeg after its loadImage settles.  Loaded: the URL is
\* revoked, the canvas is resized and drawn on, the thumbnail is made from
\* the canvas and canvas.toBlob is requested for the canvas as it is now.
\* Failed: the rejection leaves the function at the await.
LoadImageSettles(b, ok) ==
  LET p == proc[b]
      file == CurrentFile(p)
  IN /\ p.pc = "loadImage"
     /\ UNCHANGED timers
     /\ IF ok
        THEN LET w1 == RevokeObjectURL(World, p.url)
                 w2 == [w1 EXCEPT !.canvas = [width |-> file.w, height |-> file.h,
                                              img |-> <<b, p.i>>]]
             IN Commit(b,
                  <<w2, [p EXCEPT !.pc = "toBlob",
                                  !.thumb = CreateThumbnailDataUrl(w2.canvas,
                                                                  DefaultMaxWidth),
                                  !.blob = JpegBlob(w2.canvas.img, w2.canvas.width,
                                                    w2.canvas.height)]>>)
        ELSE Commit(b, CatchError(World, p, "Failed to load image"))

\* Mutant of ToBlobSettles: the canvas is encoded as it is when the callback
\* runs, not as it was when toBlob was called.
ToBlobSettlesEncodesLate(b, ok) ==
  LET p == proc[b]
  IN /\ p.pc = "toBlob"
     /\ ok => canvas.width > 0 /\ canvas.height > 0
     /\ UNCHANGED timers
     /\ IF ok
        THEN Commit(b, Succeed(World, p,
                               JpegBlob(canvas.img, canvas.width, canvas.height),
                               p.thumb))
        ELSE Commit(b, CatchError(World, p, "Failed to create JPEG blob"))

\* The callback of canvas.toBlob: a blob, or null (always null for a canvas
\* without pixels).
ToBlobSettles(b, ok) ==
  LET p == proc[b]
  IN /\ p.pc = "toBlob"
     /\ ok => p.blob.w > 0 /\ p.blob.h > 0
     /\ UNCHANGED timers
     /\ IF ok
        THEN Commit(b, Succeed(World, p, p.blob, p.thumb))
        ELSE Commit(b, CatchError(World, p, "Failed to create JPEG blob"))

\* A click on the Download link of the k-th child of #output: the listener
\* of addDownloadLink sets a timer for the link's URL.
Click(k) ==
  /\ k \in 1..Len(output)
  /\ output[k].kind = "row"
  /\ timers' = Append(timers, output[k].href)
  /\ Len(timers) < MaxTimers
  /\ UNCHANGED <<status, output, canvas, objectUrls, blobUrls, revoked, proc>>

\* Mutant of TimerFires: the callback runs the cleanup of the whole set.
TimerFiresRevokesAll ==
  /\ timers # <<>>
  /\ timers' = Tail(timers)
  /\ SetWorld(RevokeAll(RevokeObjectURL(World, Head(timers))))
  /\ UNCHANGED proc

\* The timer callback: URL.revokeObjectURL(url); objectUrls.delete(url);
\* The timers all have the same delay, so they fire in the order set.
TimerFires ==
  /\ timers # <<>>
  /\ timers' = Tail(timers)
  /\ SetWorld([RevokeObjectURL(World, Head(timers))
                 EXCEPT !.objectUrls = @ \ {Head(timers)}])
  /\ UNCHANGED proc

\* window "beforeunload" listener.  The page goes on running until the
\* navigation commits, which may take long or never happen.
BeforeUnload ==
  /\ SetWorld(RevokeAll(World))
  /\ UNCHANGED <<timers, proc>>

\* The files of one event: a FileList holds no file twice.
FileLists(S, n) ==
  {fl \in SeqsUpTo(S, n) : \A j, k \in DOMAIN fl : j # k => fl[j] # fl[k]}
Inputs == FileLists(MainFiles, MaxFiles)

\* The supported files the run has handed to processFiles so far.
RECURSIVE SumFiles(_)
SumFiles(n) == IF n = 0 THEN 0 ELSE Len(proc[n].files) + SumFiles(n - 1)
InBounds(input) ==
  /\ \E b \in Batches : proc[b].pc = "idle"
  /\ SumFiles(MaxBatches) + Len(FilterFiles(input)) <= MaxRunFiles

Next ==
  \/ \E input \in Inputs : InBounds(input) /\ FileInputChange(input)
  \/ \E input \in Inputs : InBounds(input) /\ Drop(input)
  \/ \E b \in Batches, outcome \in IsHeicOutcomes : IsHeicSettles(b, outcome)
  \/ \E b \in Batches, ok \in BOOLEAN : HeicToSettles(b, ok)
  \/ \E b \in Batches, outcome \in ThumbOutcomes : ThumbLoadSettles(b, outcome)
  \/ \E b \in Batches, ok \in BOOLEAN : LoadImageSettles(b, ok)
  \/ \E b \in Batches, ok \in BOOLEAN : ToBlobSettles(b, ok)
  \/ \E k \in 1..Len(output) : Click(k)
  \/ TimerFires
  \/ BeforeUnload

Spec == Init /\ [][Next]_vars

\* Every external operation an invocation awaits (the classifier, the HEIC
\* decoder, an image load, the canvas encoder) eventually settles.
Settles(b) ==
  \/ \E outcome \in IsHeicOutcomes : IsHeicSettles(b, outcome)
  \/ \E ok \in BOOLEAN : HeicToSettles(b, ok)
  \/ \E outcome \in ThumbOutcomes : ThumbLoadSettles(b, outcome)
  \/ \E ok \in BOOLEAN : LoadImageSettles(b, ok)
  \/ \E ok \in BOOLEAN : ToBlobSettles(b, ok)

\* The events and continuations of processFiles alone.  The other three
\* actions write timers, revoked and objectUrls only, which no action here
\* reads except to add to them.
NextBatches ==
  \/ \E input \in Inputs : InBounds(input) /\ FileInputChange(input)
  \/ \E input \in Inputs : InBounds(input) /\ Drop(input)
  \/ \E b \in Batches : Settles(b)

FairSpec ==
  Init /\ [][NextBatches]_vars /\ \A b \in Batches : WF_vars(Settles(b))

\* One event over all the files of the catalog, and its continuations.
FilterInputs == FileLists(AllFiles, MaxFilterFiles)
InFilterBounds(input) == \A b \in Batches : proc[b].pc = "idle"

NextFilter ==
  \/ \E input \in FilterInputs : InFilterBounds(input) /\ FileInputChange(input)
  \/ \E input \in FilterInputs : InFilterBounds(input) /\ Drop(input)
  \/ \E b \in Batches : Settles(b)

FilterSpec == Init /\ [][NextFilter]_vars

\* ------------------------------------------------------------ observations

\* Where an invocation of processFiles is.
Idle(b) == proc[b].pc = "idle"
Returned(b) == proc[b].pc = "returned"
Running(b) == ~Idle(b) /\ ~Returned(b)
\* One of the two conversions has been called for the current file and has
\* neither returned nor thrown.
Converting(b) ==
  proc[b].pc \in {"heicTo", "thumbLoad", "loadImage", "toBlob"}

IsRow(e) == e.kind = "row"
IsErrorLine(e) == e.kind = "log" /\ e.text[1] = "Error converting "
IsErrorLineFor(e, name) == IsErrorLine(e) /\ e.text[2] = name
Count(seq, Test(_)) == Cardinality({k \in DOMAIN seq : Test(seq[k])})

\* Invocation b returns from the loop in this step.
Finishes(b) == Running(b) /\ Returned(b)'

\* A conversion of invocation b fails in this step: the decoder rejects,
\* an image does not load, the thumbnail cannot be drawn or the canvas
\* gives no blob.
ConversionFails(b) ==
  \/ HeicToSettles(b, FALSE)
  \/ ThumbLoadSettles(b, "error")
  \/ ThumbLoadSettles(b, "throw")
  \/ LoadImageSettles(b, FALSE)
  \/ ToBlobSettles(b, FALSE)

\* The step appends exactly one child to #output.
AppendsOne == Len(output') = Len(output) + 1 /\ SubSeq(output', 1, Len(output)) = output
Appended == output'[Len(output')]

\* ------------------------------------------------------------------ claims

\* C1: when an invocation of processFiles finishes, the rows plus the
\* "Error converting" lines in #output are as many as the files of that
\* invocation that passed the filter.
C1_RowsPlusErrorsAreFiles ==
  [][\A b \in Batches :
       Finishes(b) =>
         Count(output', IsRow) + Count(output', IsErrorLine)
           = Len(proc[b].files)]_vars

\* C2: a conversion that fails appends exactly one error line, which names
\* the file, and the loop goes on: the next file is classified, or, after
\* the last file, the invocation returns.
C2_BadFileNeverAborts ==
  [][\A b \in Batches :
       ConversionFails(b) =>
         /\ AppendsOne
         /\ IsErrorLineFor(Appended, CurrentFile(proc[b]).name)
         /\ proc'[b].files = proc[b].files
         /\ IF proc[b].i < Len(proc[b].files)
            THEN proc'[b].pc = "isHeic" /\ proc'[b].i = proc[b].i + 1
            ELSE Returned(b)']_vars

\* C2 witness: the first file of an invocation has failed, its error line
\* is in #output, and the second file is being converted.
C2_SecondFileAfterFailure ==
  \E b \in Batches :
    /\ proc[b].i = 2 /\ Converting(b)
    /\ proc[b].files[1].name # proc[b].files[2].name
    /\ \E k \in DOMAIN output : IsErrorLineFor(output[k], proc[b].files[1].name)

\* Every invocation that has started its loop returns.
C3_DoneLiveness == \A b \in Batches : Running(b) ~> Returned(b)
\* An invocation returns from its loop in the step in which its last file
\* gets its row or error line, and that step sets the status "Done.";
\* nothing else sets it.
C3_DoneSafety ==
  [][/\ \A b \in Batches :
          Finishes(b) =>
            /\ status' = DoneMsg
            /\ proc[b].i = Len(proc[b].files)
            /\ Len(output') = Len(output) + 1
            /\ IsRow(output'[Len(output')]) \/ IsErrorLine(output'[Len(output')])
     /\ (status' = DoneMsg /\ status # DoneMsg) =>
          \E b \in Batches : Finishes(b)]_vars
\* C3: when every awaited operation settles, every invocation with a
\* supported file ends by setting the status "Done.", however many files
\* failed, and sets it in the step in which its last file reaches its
\* outcome (a row or an error line), not before.
C3_DoneEventually == C3_DoneLiveness /\ C3_DoneSafety

\* C3 witness: an invocation has returned with every one of its files
\* failed, and the status is "Done.".
C3_AllFailedDone ==
  \E b \in Batches :
    /\ Returned(b) /\ Len(proc[b].files) = 2
    /\ status = DoneMsg
    /\ Len(output) = 4
    /\ Count(output, IsErrorLine) = 2

\* C4: at most one file conversion is in progress at any time, also when
\* an event calls processFiles while an earlier invocation is suspended.
C4_OneConversionAtATime ==
  Cardinality({b \in Batches : Converting(b)}) <= 1

\* The file (invocation and position) a URL was created for, and whether
\* that file has reached its outcome.
UrlBatch(u) == u.blob.img[1]
UrlIndex(u) == u.blob.img[2]
OutcomeReached(b, i) == proc[b].i > i \/ Returned(b)

\* C5: once a file of the Standard path has reached its outcome, the
\* source URL created for it has been revoked.
C5_SourceUrlReleased ==
  \A u \in blobUrls :
    (u.site = "source" /\ OutcomeReached(UrlBatch(u), UrlIndex(u)))
      => u \in revoked

\* C6: no row in #output has a Download link whose URL has been revoked,
\* stated for the case the claim names: after the delayed revoke that
\* follows a click, every row that is in #output has a URL that is not
\* revoked.
C6_NoRowBoundToRevokedUrl ==
  [][TimerFires =>
       \A k \in DOMAIN output' :
         IsRow(output'[k]) => output'[k].href \notin revoked']_vars

\* The step starts a batch (status, revoke-all, clearing of #output).
StartsBatch == \E b \in Batches : Idle(b) /\ Running(b)'
\* The step runs revoke-all.
RevokesAll == StartsBatch \/ BeforeUnload

\* C7: objectUrls never holds a revoked URL; after a revoke-all it is
\* empty; after the click timer of a URL it does not hold that URL; and a
\* revoke-all that finds the set empty, as after a revoke-all, revokes
\* nothing and leaves the set empty.
C7_TrackerInvariant ==
  /\ [](objectUrls \cap revoked = {})
  /\ [][/\ RevokesAll => objectUrls' = {}
        /\ TimerFires => Head(timers) \notin objectUrls' /\ Head(timers) \in revoked'
        /\ (RevokesAll /\ objectUrls = {}) =>
             (objectUrls' = {} /\ revoked' = revoked)]_vars

\* C7 witness: a download URL was registered and then revoked (by its click
\* timer or by a revoke-all); its row is still there and a later URL is tracked.
C7_RevokedNotTracked ==
  \E u \in revoked, v \in objectUrls :
    /\ u.site = "download" /\ u # v
    /\ UrlBatch(u) = UrlBatch(v)
    /\ \E k \in DOMAIN output : IsRow(output[k]) /\ output[k].href = u

\* C8: every download URL that has not been revoked is the URL of a row in
\* #output, and a step that empties #output leaves no URL that was tracked
\* before it unrevoked.
C8_NoHandleOutlivesItsRow ==
  /\ [](\A u \in blobUrls :
          (u.site = "download" /\ u \notin revoked) =>
            \E k \in DOMAIN output : IsRow(output[k]) /\ output[k].href = u)
  /\ [][(output # <<>> /\ output' = <<>>) => objectUrls \subseteq revoked']_vars

\* C8 witness: a new batch has cleared the rows of an earlier invocation
\* that is still running, the cleared row's URL is revoked, and the earlier
\* invocation has since added a row with a live URL.
C8_ClearedWhileRunning ==
  \E u \in revoked, v \in objectUrls :
    /\ u.site = "download" /\ UrlBatch(u) = 1 /\ UrlBatch(v) = 1
    /\ Running(2)
    /\ \A k \in DOMAIN output : IsRow(output[k]) => output[k].href # u
    /\ \E k \in DOMAIN output : IsRow(output[k]) /\ output[k].href = v

\* What the filter is to keep, stated on the characters: a type whose
\* first six characters are "image/", or a name whose last five characters
\* are ".heic" or ".heif" with each letter in either case.
UpperOf(c) ==
  CASE c = "h" -> "H" [] c = "e" -> "E" [] c = "i" -> "I"
    [] c = "c" -> "C" [] c = "f" -> "F" [] OTHER -> c
IsCaseVariant(s, word) ==
  /\ Len(s) = Len(word)
  /\ \A k \in DOMAIN word : s[k] = word[k] \/ s[k] = UpperOf(word[k])
LastChars(s, n) == SubSeq(s, Len(s) - n + 1, Len(s))
IsImageType(type) ==
  /\ Len(type) >= 6
  /\ type[1] = "i" /\ type[2] = "m" /\ type[3] = "a"
  /\ type[4] = "g" /\ type[5] = "e" /\ type[6] = "/"
HasHeicName(name) ==
  /\ Len(name) >= 5
  /\ \/ IsCaseVariant(LastChars(name, 5), <<".", "h", "e", "i", "c">>)
     \/ IsCaseVariant(LastChars(name, 5), <<".", "h", "e", "i", "f">>)
ToBeKept(file) == IsImageType(file.type) \/ HasHeicName(file.name)
KeptPositions(input) == {k \in DOMAIN input : ToBeKept(input[k])}

\* C9: the files an invocation works on are exactly the files of the event
\* that are to be kept, in the order of the event; the call itself appends
\* no line; and no line or row in #output ever names a file that is not to
\* be kept.
C9_FilterExact ==
  /\ [][\A b \in Batches :
          (Idle(b) /\ ~Idle(b)') =>
            \A input \in FilterInputs :
              ProcessFiles(b, input) =>
                /\ Len(proc'[b].files) = Cardinality(KeptPositions(input))
                /\ \A k \in KeptPositions(input) :
                     proc'[b].files[Cardinality({j \in KeptPositions(input) : j <= k})]
                       = input[k]
                /\ output' \in {output, <<>>}]_vars
  /\ [](\A k \in DOMAIN output :
          \E file \in AllFiles :
            /\ ToBeKept(file)
            /\ IF IsRow(output[k]) THEN output[k].label = JpgName(file.name)
               ELSE output[k].text[2] = file.name)

\* C9 witness: the two kept files of an event, one with a mixed-case .HeIf
\* name and no type and one with an image/ type, are worked on in their
\* order, and the first has its lines in #output.
C9_KeptInOrder ==
  /\ proc[1].files = <<Catalog[4], Catalog[9]>>
  /\ proc[1].i = 2
  /\ Len(output) >= 2

\* C10: a file goes to the HEIC path exactly when isHeic resolved with
\* true; when isHeic rejects, the file goes to the Standard path, the only
\* line appended is the Standard path's progress line, and the invocation
\* stays on the same file.
C10_RoutingFollowsClassifier ==
  [][\A b \in Batches, outcome \in IsHeicOutcomes :
       IsHeicSettles(b, outcome) =>
         /\ proc'[b].pc = "heicTo" <=> outcome = "true"
         /\ proc'[b].pc = "loadImage" <=> outcome # "true"
         /\ AppendsOne
         /\ Appended.kind = "log"
         /\ Appended.text = IF outcome = "true"
                            THEN HeicLine(CurrentFile(proc[b]).name)
                            ELSE StdLine(CurrentFile(proc[b]).name)
         /\ proc'[b].i = proc[b].i /\ proc'[b].files = proc[b].files]_vars

\* C10 witness: a file whose name ends in .HEIC is on the Standard path
\* (isHeic resolved with false or rejected), with its progress line the
\* last child of #output.
C10_HeicNameOnStandardPath ==
  \E b \in Batches :
    /\ proc[b].pc = "loadImage" /\ proc[b].i = 2
    /\ CurrentFile(proc[b]).name = Catalog[1].name
    /\ output # <<>>
    /\ output[Len(output)] = [kind |-> "log", text |-> StdLine(Catalog[1].name)]

\* The positions of the two conversion paths.
OnHeicPath(b) == proc[b].pc \in {"heicTo", "thumbLoad"}
OnStandardPath(b) == proc[b].pc \in {"loadImage", "toBlob"}
IsProgressLine(e) ==
  e.kind = "log" /\ e.text[1] \in {"(HEIC) Converting ", "(Standard image) Reading "}
IsProgressLineFor(e, name) == IsProgressLine(e) /\ e.text[2] = name

\* C11: within an invocation the position in the filtered files never goes
\* back and advances by one file at a time; a file that is being converted
\* is never classified again; a file that is on one path never moves to the
\* other; a file is put on a path only from the classification of that
\* same file, with exactly one progress line; and when the attempt ends,
\* with a row or with an error line, the invocation moves to the next file
\* or returns.
C11_EachFileAttemptedOnce ==
  [][\A b \in Batches :
       /\ proc'[b].i >= proc[b].i /\ proc'[b].i <= proc[b].i + 1
       /\ ~Idle(b) => proc'[b].files = proc[b].files
       /\ Returned(b) => proc'[b] = proc[b]
       /\ (Converting(b) /\ proc'[b].i = proc[b].i) =>
            /\ proc'[b].pc # "isHeic"
            /\ OnHeicPath(b) => ~OnStandardPath(b)'
            /\ OnStandardPath(b) => ~OnHeicPath(b)'
       /\ (~Converting(b) /\ Converting(b)') =>
            /\ proc[b].pc = "isHeic" /\ proc'[b].i = proc[b].i
            /\ AppendsOne
            /\ IsProgressLineFor(Appended, CurrentFile(proc[b]).name)
       /\ (Converting(b) /\ ~Converting(b)') =>
            /\ AppendsOne
            /\ \/ IsRow(Appended) /\ Appended.label = JpgName(CurrentFile(proc[b]).name)
               \/ IsErrorLineFor(Appended, CurrentFile(proc[b]).name)
            /\ IF proc[b].i < Len(proc[b].files)
               THEN proc'[b].i = proc[b].i + 1 /\ proc'[b].pc = "isHeic"
               ELSE Returned(b)'
       /\ (proc'[b].i # proc[b].i /\ ~Idle(b)) => Converting(b)]_vars

\* C11 witness: the first file of an invocation went down the HEIC path and
\* failed, the second is on the Standard path, and #output holds one
\* progress line and one error line for the first file and one progress
\* line for the second.
C11_BothPathsOnceEach ==
  \E b \in Batches :
    /\ proc[b].i = 2 /\ proc[b].pc = "toBlob"
    /\ Len(output) = 3
    /\ output[1] = [kind |-> "log", text |-> HeicLine(proc[b].files[1].name)]
    /\ IsErrorLineFor(output[2], proc[b].files[1].name)
    /\ output[3] = [kind |-> "log", text |-> StdLine(proc[b].files[2].name)]

\* C12: a call of processFiles with no files, or with files none of which
\* is to be kept, sets the status to the message of its case and changes
\* nothing else: #output (rows and lines), objectUrls, the revoked URLs,
\* the canvas and the timers stay as they are, the call returns without
\* taking a file, and every other invocation stays where it is.
C12_EmptyInputOnlyStatus ==
  [][\A b \in Batches :
       (Idle(b) /\ ~Idle(b)') =>
         \A input \in Inputs :
           (KeptPositions(input) = {} /\ ProcessFiles(b, input)) =>
             /\ status' = IF Len(input) = 0 THEN NoFilesMsg ELSE NoSupportedMsg
             /\ UNCHANGED <<output, objectUrls, revoked, blobUrls, canvas, timers>>
             /\ Returned(b)' /\ proc'[b].files = <<>>
             /\ \A c \in Batches \ {b} : proc'[c] = proc[c]]_vars

\* C12 witness: an event without a supported file came while an earlier
\* invocation was converting; the earlier invocation's row, its tracked URL
\* and its progress are there, and the status is the event's message.
C12_EmptyEventDuringBatch ==
  /\ status = NoSupportedMsg
  /\ Converting(1) /\ proc[1].i = 2
  /\ Returned(2) /\ proc[2].files = <<>>
  /\ Len(output) = 3 /\ IsRow(output[2])
  /\ objectUrls = {output[2].href}

\* Every download URL a run can create, and the URLs with a pending timer.
DownloadUrls ==
  {NewUrl(JpegBlob(<<b, i>>, f.w, f.h), "download") :
     b \in Batches, i \in 1..MaxFiles, f \in MainFiles}
Pending(u) == \E k \in DOMAIN timers : timers[k] = u
NewDownloadUrls == {u \in blobUrls' \ blobUrls : u.site = "download"}

\* The page with at most MaxTimerRunFiles supported files in a run, where
\* the timer callbacks run when their delay has elapsed.
InTimerBounds(input) ==
  /\ \E b \in Batches : proc[b].pc = "idle"
  /\ SumFiles(MaxBatches) + Len(FilterFiles(input)) <= MaxTimerRunFiles
NextTimers ==
  \/ \E input \in Inputs : InTimerBounds(input) /\ FileInputChange(input)
  \/ \E input \in Inputs : InTimerBounds(input) /\ Drop(input)
  \/ \E b \in Batches : Settles(b)
  \/ \E k \in 1..Len(output) : Click(k)
  \/ TimerFires
  \/ BeforeUnload
TimerSpec == Init /\ [][NextTimers]_vars /\ WF_vars(TimerFires)

\* A download URL is created, and added to objectUrls, in the step that
\* appends its row and in no other.
CreatedWithItsRow ==
  /\ NewDownloadUrls # {} =>
       /\ AppendsOne /\ IsRow(Appended)
       /\ NewDownloadUrls = {Appended.href}
  /\ (AppendsOne /\ IsRow(Appended)) =>
       /\ NewDownloadUrls = {Appended.href}
       /\ Appended.href \in objectUrls' \ revoked'
  /\ objectUrls' \ objectUrls \subseteq NewDownloadUrls
\* A click revokes nothing; its timer stays pending until it fires.
PendingUntilFired ==
  /\ (\E k \in DOMAIN output : Click(k)) =>
       UNCHANGED <<objectUrls, revoked, output>>
  /\ \A u \in DownloadUrls :
       (Pending(u) /\ ~Pending(u)') => (TimerFires /\ u = Head(timers))
\* The timer revokes and removes its own URL and nothing else.
RevokesOnlyItsOwn ==
  TimerFires =>
    /\ revoked' = revoked \cup {Head(timers)}
    /\ objectUrls' = objectUrls \ {Head(timers)}
    /\ UNCHANGED <<output, blobUrls, status, canvas, proc>>
\* A clicked URL ends up revoked and out of objectUrls.
EventuallyRevoked ==
  \A u \in DownloadUrls : Pending(u) ~> (u \in revoked /\ u \notin objectUrls)

\* C13 as it is stated: a download URL is created and registered in the
\* step that appends its row; after a click the URL is not revoked before
\* the timer of the click fires; it is revoked and removed in the end; and
\* the timer changes no other URL.
C13_NotRevokedBeforeDelay ==
  /\ [][/\ CreatedWithItsRow
        /\ PendingUntilFired
        /\ RevokesOnlyItsOwn
        /\ \A u \in DownloadUrls :
             (Pending(u) /\ u \notin revoked /\ u \in revoked') => TimerFires]_vars
  /\ EventuallyRevoked

\* C13, amended: as stated, except that between the click and the end of
\* the delay the URL can be revoked by a revoke-all (the start of a batch
\* or beforeunload), and by nothing else.
C13_HandleLifecycle ==
  /\ [][/\ CreatedWithItsRow
        /\ PendingUntilFired
        /\ RevokesOnlyItsOwn
        /\ \A u \in DownloadUrls :
             (Pending(u) /\ u \notin revoked /\ u \in revoked') =>
               (TimerFires \/ RevokesAll)]_vars
  /\ EventuallyRevoked

\* C13 witness: the link of a row of the first invocation was clicked, a
\* later batch has revoked its URL and has a row and a tracked URL of its
\* own, and the timer of the click is still to fire.
C13_TimerPendingAcrossBatches ==
  \E u \in revoked, v \in objectUrls :
    /\ timers = <<u>>
    /\ UrlBatch(u) = 1 /\ UrlBatch(v) = 2
    /\ \E k \in DOMAIN output : IsRow(output[k]) /\ output[k].href = v

\* createThumbnailFromBlob of invocation b is suspended, holding URL u.
InThumbnail(b, u) == proc[b].pc = "thumbLoad" /\ proc[b].url = u

\* C14: the URL createThumbnailFromBlob creates is unrevoked while the
\* function waits for the image, is revoked in the step in which the
\* function ends, whichever of its three ways out it takes, and is revoked
\* by that step only: a thumbnail URL is revoked exactly when no invocation
\* is inside createThumbnailFromBlob with it.
C14_ThumbnailUrlReleased ==
  /\ [](\A u \in blobUrls :
          u.site = "thumbnail" =>
            (u \in revoked <=> ~\E b \in Batches : InThumbnail(b, u)))
  /\ [](\A b \in Batches :
          proc[b].pc = "thumbLoad" =>
            /\ proc[b].url.site = "thumbnail"
            /\ proc[b].url \in blobUrls)
  /\ [][\A b \in Batches :
          /\ (proc[b].pc = "thumbLoad" /\ proc'[b].pc # "thumbLoad") =>
               /\ revoked' \ revoked = {proc[b].url}
               /\ \/ AppendsOne /\ IsRow(Appended)
                  \/ AppendsOne /\ IsErrorLineFor(Appended, CurrentFile(proc[b]).name)
          /\ \A u \in revoked' \ revoked :
               u.site = "thumbnail" =>
                 \E c \in Batches : InThumbnail(c, u) /\ ~InThumbnail(c, u)']_vars

\* C14 witness: createThumbnailFromBlob has ended by a throw after the
\* image had loaded, its URL is revoked, and the file has its error line.
C14_RevokedAfterThrow ==
  \E u \in revoked, k \in DOMAIN output :
    /\ u.site = "thumbnail"
    /\ IsErrorLine(output[k]) /\ output[k].text[4] = "thumbnail failed"
    /\ output[k].text[2] = proc[UrlBatch(u)].files[UrlIndex(u)].name
    /\ OutcomeReached(UrlBatch(u), UrlIndex(u))

\* ------------------------------------------------- the thumbnail functions
\* The two thumbnail functions applied to a picture of any size up to
\* MaxDim, with any maxWidth up to MaxDim.  The picture is on the canvas
\* (createThumbnailDataUrl reads the canvas size) and in a JPEG blob of the
\* same size (createThumbnailFromBlob reads the natural size of its image);
\* each call leaves its data URL in #output, once per function.

Dims == 1..MaxDim

InitThumb ==
  /\ canvas \in [width : Dims, height : Dims, img : {<<1, 1>>}]
  /\ status = <<"">>
  /\ output = <<>>
  /\ objectUrls = {}
  /\ blobUrls = {}
  /\ revoked = {}
  /\ timers = <<>>
  /\ proc = [b \in Batches |-> IdleProc]

\* The thumbnail of function f is in #output.
HasThumb(f) == \E k \in DOMAIN output : output[k].from = f

\* thumbDataUrl = createThumbnailDataUrl(canvas, maxWidth)
CallThumbnailDataUrl(maxWidth) ==
  /\ ~HasThumb("canvas")
  /\ output' = Append(output, [kind |-> "thumb", from |-> "canvas",
                               maxWidth |-> maxWidth,
                               thumb |-> CreateThumbnailDataUrl(canvas, maxWidth)])
  /\ UNCHANGED <<status, canvas, objectUrls, blobUrls, revoked, timers, proc>>

\* thumbDataUrl = await createThumbnailFromBlob(blob, maxWidth), the image
\* having loaded
CallThumbnailFromBlob(maxWidth) ==
  /\ ~HasThumb("blob")
  /\ output' = Append(output, [kind |-> "thumb", from |-> "blob",
                               maxWidth |-> maxWidth,
                               thumb |-> ThumbnailOfImage(
                                           JpegBlob(canvas.img, canvas.width,
                                                    canvas.height), maxWidth)])
  /\ UNCHANGED <<status, canvas, objectUrls, blobUrls, revoked, timers, proc>>

NextThumb ==
  \/ \E maxWidth \in Dims : CallThumbnailDataUrl(maxWidth)
  \/ \E maxWidth \in Dims : CallThumbnailFromBlob(maxWidth)

ThumbSpec == InitThumb /\ [][NextThumb]_vars

Min(x, y) == IF x <= y THEN x ELSE y
\* t is an integer nearest to num / den.
IsNearest(t, num, den) == 2 * t * den - 2 * num <= den /\ 2 * num - 2 * t * den <= den

\* C15: for a picture of w x h and a maxWidth m, all positive, the
\* thumbnail of either function is min(w, m) wide, so never wider than the
\* picture or than m, and is as high as h * min(m / w, 1) rounded, so never
\* higher than h; a picture that is not wider than m keeps its size.
C15_NeverUpscaled ==
  \A k \in DOMAIN output :
    LET w == canvas.width
        h == canvas.height
        m == output[k].maxWidth
        t == output[k].thumb
    IN /\ t # Null
       /\ t[1] <= Min(w, m) /\ t[2] <= h
       /\ t[1] = Min(w, m)
       /\ IsNearest(t[2], h * Min(w, m), w)
       /\ m >= w => (t[1] = w /\ t[2] = h)
       /\ t[3] = canvas.img

\* C15 witness: a picture wider than one maxWidth and narrower than the
\* other: the canvas thumbnail is scaled down to maxWidth, the blob
\* thumbnail has the size of the picture.
C15_ScaledDownAndKept ==
  /\ Len(output) = 2
  /\ output[1].from = "canvas" /\ output[1].maxWidth < canvas.width
  /\ output[1].thumb[1] = output[1].maxWidth
  /\ output[1].thumb[2] < canvas.height
  /\ output[2].from = "blob" /\ output[2].maxWidth > canvas.width
  /\ output[2].thumb[1] = canvas.width /\ output[2].thumb[2] = canvas.height

\* Entry e of #output is a progress line, or the row or error line, of
\* the i-th file of invocation b.
ProgressOf(e, b, i) == IsProgressLineFor(e, proc[b].files[i].name)
OutcomeOf(e, b, i) ==
  \/ IsErrorLineFor(e, proc[b].files[i].name)
  \/ /\ IsRow(e)
     /\ e.label = JpgName(proc[b].files[i].name)
     /\ e.href.blob.img = <<b, i>>
\* Invocation b is the only one that has taken files.
Alone(b) == \A c \in Batches \ {b} : proc[c].files = <<>>

\* C16: #output only grows at its end, and only in steps of an invocation;
\* what a step of an invocation appends belongs to the file the invocation
\* is at, a progress line when the file is put on its path and the row or
\* error line when the attempt ends, and the position only advances, so
\* that the entries of file i come before those of file j > i and a file's
\* progress line before its outcome.  The rows of an invocation stand in
\* #output in the order of its files, and while one invocation runs alone
\* #output is, file by file, the progress line and then the row or error
\* line.
C16_OutputInProcessingOrder ==
  /\ [][/\ output' # output =>
             \/ output' = <<>> /\ StartsBatch
             \/ AppendsOne /\ \E b \in Batches : Running(b) /\ proc'[b] # proc[b]
        /\ \A b \in Batches :
             (Running(b) /\ proc'[b] # proc[b] /\ output' # output) =>
               /\ AppendsOne
               /\ proc[b].pc = "isHeic" => ProgressOf(Appended, b, proc[b].i)
               /\ Converting(b) =>
                    /\ OutcomeOf(Appended, b, proc[b].i)
                    /\ ~Converting(b)'
        /\ \A b \in Batches : proc'[b].i >= proc[b].i]_vars
  /\ [](\A k, l \in DOMAIN output :
          (k < l /\ IsRow(output[k]) /\ IsRow(output[l])
             /\ UrlBatch(output[k].href) = UrlBatch(output[l].href)) =>
            UrlIndex(output[k].href) < UrlIndex(output[l].href))
  /\ [](\A b \in Batches :
          (Alone(b) /\ ~Idle(b) /\ proc[b].files # <<>>) =>
            /\ Len(output) = IF Converting(b) THEN 2 * proc[b].i - 1
                             ELSE IF Returned(b) THEN 2 * proc[b].i
                             ELSE 2 * proc[b].i - 2
            /\ \A j \in DOMAIN proc[b].files :
                 /\ 2 * j - 1 <= Len(output) => ProgressOf(output[2 * j - 1], b, j)
                 /\ 2 * j <= Len(output) => OutcomeOf(output[2 * j], b, j))

\* C16 witness: an invocation alone has converted its first file and put
\* its second file on a path: #output is the first file's progress line,
\* its row, and the second file's progress line.
C16_RowBetweenProgressLines ==
  /\ Alone(1) /\ Converting(1) /\ proc[1].i = 2
  /\ Len(output) = 3
  /\ ProgressOf(output[1], 1, 1)
  /\ IsRow(output[2]) /\ OutcomeOf(output[2], 1, 1)
  /\ ProgressOf(output[3], 1, 2)

\* The picture of the i-th file of invocation b, as thumbnail t or blob.
ThumbShows(t, b, i) == t # Null /\ t[3] = <<b, i>>
BlobShows(blob, b, i) ==
  /\ blob.img = <<b, i>>
  /\ blob.w = proc[b].files[i].w /\ blob.h = proc[b].files[i].h
\* The step in which the Standard path draws on the canvas.
Draws(b) == proc[b].pc = "loadImage" /\ proc'[b].pc = "toBlob"

\* C17: the canvas changes only in the step in which a Standard conversion
\* draws its file; in that same step the thumbnail and the encoding are
\* taken, and they show that file; while the encoding is awaited the
\* invocation holds its own file's thumbnail and picture, whatever other
\* invocations draw meanwhile; and every row in #output links to, and
\* shows as its thumbnail, the picture of the file the row is labelled
\* with.
C17_CanvasNeedsNoLock ==
  /\ [][/\ canvas' # canvas => \E b \in Batches : Draws(b)
        /\ \A b \in Batches :
             Draws(b) =>
               /\ canvas'.img = <<b, proc[b].i>>
               /\ canvas'.width = CurrentFile(proc[b]).w
               /\ canvas'.height = CurrentFile(proc[b]).h
               /\ proc'[b].i = proc[b].i
               /\ BlobShows(proc'[b].blob, b, proc[b].i)
               /\ \/ ThumbShows(proc'[b].thumb, b, proc[b].i)
                  \/ proc'[b].thumb = Null /\ (canvas'.width = 0 \/ canvas'.height = 0)]_vars
  /\ [](\A b \in Batches :
          proc[b].pc = "toBlob" =>
            /\ BlobShows(proc[b].blob, b, proc[b].i)
            /\ proc[b].thumb # Null => ThumbShows(proc[b].thumb, b, proc[b].i))
  /\ [](\A k \in DOMAIN output :
          IsRow(output[k]) =>
            LET b == UrlBatch(output[k].href)
                i == UrlIndex(output[k].href)
            IN /\ b \in Batches /\ i \in DOMAIN proc[b].files
               /\ output[k].label = JpgName(proc[b].files[i].name)
               /\ BlobShows(output[k].href.blob, b, i)
               /\ ThumbShows(output[k].thumb, b, i))

\* C17 witness: the first invocation asked for its encoding, the second
\* then drew its own file on the canvas and finished, and the first
\* invocation's row, appended after that, shows the first file.
C17_RowAfterOtherBatchDrew ==
  /\ Len(output) = 3
  /\ IsRow(output[2]) /\ UrlBatch(output[2].href) = 2
  /\ IsRow(output[3]) /\ UrlBatch(output[3].href) = 1
  /\ canvas.img = <<2, 1>>
  /\ output[3].thumb # Null
  /\ output[3].thumb[3] = <<1, 1>>
  /\ output[3].href.blob.img = <<1, 1>>
  /\ output[3].href.blob.w # canvas.width

\* C18: while an invocation of processFiles has a file in progress or
\* pending, the status is not "Done.".
C18_DoneOnlyWhenNoBatchRuns ==
  (\E b \in Batches : Running(b)) => status # DoneMsg

\* The download URLs createObjectURL has returned.
CreatedDownloadUrls == {u \in blobUrls : u.site = "download"}

\* C19: every download URL that has been created and is not revoked is in
\* objectUrls; after a revoke-all (the start of a batch, or beforeunload)
\* every download URL created before it is revoked; and a conversion that
\* fails creates no download URL and leaves objectUrls as it is.
C19_NoHandleEscapesTracker ==
  /\ [](CreatedDownloadUrls \ revoked \subseteq objectUrls)
  /\ [][/\ RevokesAll => CreatedDownloadUrls \subseteq revoked'
        /\ \A b \in Batches :
             ConversionFails(b) =>
               /\ objectUrls' = objectUrls
               /\ CreatedDownloadUrls' = CreatedDownloadUrls]_vars

\* C19 witness: the first invocation converted one of its two files and
\* failed on the other; a second batch has started, and the one download
\* URL that was created is revoked and objectUrls is empty.
C19_CleanedAtNextBatch ==
  /\ Returned(1) /\ Len(proc[1].files) = 2
  /\ proc[2].pc = "isHeic" /\ proc[2].i = 1
  /\ output = <<>>
  /\ objectUrls = {}
  /\ Cardinality(CreatedDownloadUrls) = 1
  /\ CreatedDownloadUrls \subseteq revoked

====
